---- MODULE Spec2Model ----
(***************************************************************************)
(* Pothole report system (Pothole-report-system/app.py): the Flask routes  *)
(* over the three tables custom_user, pothole_report and                   *)
(* municipal_verification.  A row's key is its index in the table's        *)
(* sequence; rows are never deleted.  Every route is an operator from the  *)
(* committed database, the caller's session cookie and the request to the  *)
(* database, the cookie and the status code it answers with; the action of *)
(* the route applies that outcome.                                         *)
(***************************************************************************)
EXTENDS Integers, Sequences, FiniteSets, TLC

VARIABLES users, reports, verifications, session, txn, isolation

dbvars == <<users, reports, verifications>>
concvars == <<txn, isolation>>
vars == <<users, reports, verifications, session, txn, isolation>>

(* ------------------------------ bounds -------------------------------- *)
MaxUsers == 2
MaxReports == 1
MaxVerifs == 1
MaxCredits == 15

(* ------------------------- program constants -------------------------- *)
SubmitCredits == 5
ApproveCredits == 10
CompleteCredits == 5
DefaultCreditsAwarded == 5

NULL == "NULL"

Clients == {"c1"}
Usernames == {"alice", "bob"}
Emails == {"a@x", "b@x"}
RegisterPasswords == {"pw"}
LoginPasswords == RegisterPasswords \cup {"bad"}

severity_enum == {"LOW", "MEDIUM", "HIGH", "CRITICAL"}
status_enum == {"PENDING", "VERIFIED", "REJECTED", "IN_PROGRESS", "COMPLETED"}
verification_status_enum == {"APPROVED", "REJECTED", "NEED_INFO"}

\* request inputs
SeverityInputs == {"HIGH", NULL}
KnownActions == {"approve", "reject", "need_info"}
ActionInputs == KnownActions \cup {"escalate", NULL}
ImageInputs == {"missing", "empty_filename", "ok"}
UploadOutcomes == {"ok", "NoCredentialsError", "ClientError"}
ReportIdInputs == 1..(MaxReports + 1)
\* request.get_json() of verify_report: an empty body, or a body whose
\* action is NULL when it has no "action" key
EmptyBody == [empty |-> TRUE, report_id |-> 0, action |-> NULL]
Body(rid, action) == [empty |-> FALSE, report_id |-> rid, action |-> action]
VerifyData ==
    {EmptyBody} \cup {Body(rid, action) : rid \in ReportIdInputs, action \in ActionInputs}
Workers == {"w1", "w2"}
IsolationLevels == {"REPEATABLE_READ", "READ_COMMITTED"}

(* ------------------------------ helpers ------------------------------- *)
generate_password_hash(pw) == <<"pbkdf2", pw>>

check_password_hash(h, pw) == h = <<"pbkdf2", pw>>

CustomUser(username, email, password, is_staff) ==
    [username |-> username, email |-> email,
     password_hash |-> generate_password_hash(password),
     credits |-> 0, is_staff |-> is_staff]

PotholeReport(user_id, severity) ==
    [user_id |-> user_id, severity |-> severity, status |-> "PENDING",
     credits_awarded |-> DefaultCreditsAwarded]

MunicipalVerification(report_id, verification_status) ==
    [report_id |-> report_id, verification_status |-> verification_status]

DB == [users |-> users, reports |-> reports, verifications |-> verifications]

\* what a route leaves behind and answers
Out(db, sess, code) == [db |-> db, sess |-> sess, code |-> code]

\* CustomUser.query.filter_by(username=...).first(): 0 when there is no row
UserByUsername(username) ==
    IF \E i \in 1..Len(users) : users[i].username = username
    THEN CHOOSE i \in 1..Len(users) : users[i].username = username
    ELSE 0

UserByEmail(email) ==
    IF \E i \in 1..Len(users) : users[i].email = email
    THEN CHOOSE i \in 1..Len(users) : users[i].email = email
    ELSE 0

\* the unique constraints of custom_user, enforced when the INSERT is flushed
UniqueViolation(u) ==
    \E i \in 1..Len(users) :
        users[i].username = u.username \/ users[i].email = u.email

ReportExists(rid) == rid \in 1..Len(reports)

\* 0: the wrapped route runs; otherwise the status code the decorator answers
login_required(c) == IF session[c] = 0 THEN 302 ELSE 0

\* a decorator that checks the session and not the staff flag
staff_required_login_only(c) == IF session[c] = 0 THEN 302 ELSE 0

staff_required(c) ==
    IF session[c] = 0 THEN 302
    ELSE IF ~(session[c] \in 1..Len(users)) \/ ~users[session[c]].is_staff
         THEN 403
         ELSE 0

\* a failure path that drops the new record and keeps the rest of the session
RollbackKeepsDirty(before, dirty) ==
    [dirty EXCEPT !.verifications = before.verifications]

\* db.session.rollback(), and the removal of an uncommitted session when a
\* request ends in an exception
Rollback(before, dirty) == before

\* the model's bounds on a route's outcome
Bounded(out) ==
    /\ Len(out.db.users) <= MaxUsers
    /\ Len(out.db.reports) <= MaxReports
    /\ Len(out.db.verifications) <= MaxVerifs
    /\ \A u \in 1..Len(out.db.users) : out.db.users[u].credits <= MaxCredits

Apply(out) ==
    /\ Bounded(out)
    /\ users' = out.db.users
    /\ reports' = out.db.reports
    /\ verifications' = out.db.verifications
    /\ session' = out.sess
    /\ UNCHANGED concvars

(* ----------------------------- user routes ---------------------------- *)
register_out(c, username, email, pw) ==
    IF UserByUsername(username) # 0 THEN Out(DB, session, 400)
    ELSE IF UserByEmail(email) # 0 THEN Out(DB, session, 400)
    ELSE Out([DB EXCEPT !.users =
                  Append(@, CustomUser(username, email, pw, FALSE))],
             session, 201)

register(c) ==
    \E username \in Usernames, email \in Emails, pw \in RegisterPasswords :
        Apply(register_out(c, username, email, pw))

municipal_register_out(c, username, email, pw) ==
    IF UserByUsername(username) # 0 THEN Out(DB, session, 400)
    ELSE IF UserByEmail(email) # 0 THEN Out(DB, session, 400)
    ELSE Out([DB EXCEPT !.users =
                  Append(@, CustomUser(username, email, pw, TRUE))],
             session, 201)

municipal_register(c) ==
    \E username \in Usernames, email \in Emails, pw \in RegisterPasswords :
        Apply(municipal_register_out(c, username, email, pw))

create_staff_user_out(c, username, email, pw) ==
    IF UserByUsername(username) # 0 THEN Out(DB, session, 400)
    ELSE LET user == CustomUser(username, email, pw, TRUE)
             dirty == [DB EXCEPT !.users = Append(@, user)]
         IN  IF UniqueViolation(user)
             \* IntegrityError out of commit(), which the route does not catch
             THEN Out(Rollback(DB, dirty), session, 500)
             ELSE Out(dirty, session, 201)

create_staff_user(c) ==
    \E username \in Usernames, email \in Emails, pw \in RegisterPasswords :
        Apply(create_staff_user_out(c, username, email, pw))

login_out(c, username, pw) ==
    LET user == UserByUsername(username)
    IN  IF user # 0 /\ check_password_hash(users[user].password_hash, pw)
        THEN Out(DB, [session EXCEPT ![c] = user], 200)
        ELSE Out(DB, session, 401)

login(c) ==
    \E username \in Usernames, pw \in LoginPasswords :
        Apply(login_out(c, username, pw))

municipal_login_out(c, username, pw) ==
    LET user == UserByUsername(username)
    IN  IF /\ user # 0
           /\ check_password_hash(users[user].password_hash, pw)
           /\ users[user].is_staff
        THEN Out(DB, [session EXCEPT ![c] = user], 200)
        ELSE Out(DB, session, 401)

municipal_login(c) ==
    \E username \in Usernames, pw \in LoginPasswords :
        Apply(municipal_login_out(c, username, pw))

logout_out(c) == Out(DB, [session EXCEPT ![c] = 0], 302)

logout(c) == Apply(logout_out(c))

(* --------------------------- report submission ------------------------ *)
\* an upload that returns the URL although the credentials were refused
upload_to_s3_always_url(outcome) ==
    IF outcome = "ClientError"
    THEN [raised |-> TRUE, s3_url |-> NULL]
    ELSE [raised |-> FALSE, s3_url |-> "https://bucket/pothole-images/key"]

\* upload_to_s3: the s3_url it returns, or the exception that escapes it
upload_to_s3(outcome) ==
    IF outcome = "ok"
    THEN [raised |-> FALSE, s3_url |-> "https://bucket/pothole-images/key"]
    ELSE IF outcome = "NoCredentialsError"
    THEN [raised |-> FALSE, s3_url |-> NULL]
    ELSE [raised |-> TRUE, s3_url |-> NULL]

\* a submission that grants the approval's credits
SubmitVerifiedBonus(db, uid, severity) ==
    [db EXCEPT !.reports = Append(@, PotholeReport(uid, severity)),
               !.users[uid].credits = @ + ApproveCredits]

\* lines 223-238: the session after add(report) and user.credits += 5
Submit(db, uid, severity) ==
    [db EXCEPT !.reports = Append(@, PotholeReport(uid, severity)),
               !.users[uid].credits = @ + SubmitCredits]

\* the NOT NULL severity column rejects the INSERT at commit()
CommitSubmitFails(severity) == ~(severity \in severity_enum)

report_pothole_out(c, image, outcome, severity) ==
    IF login_required(c) # 0 THEN Out(DB, session, login_required(c))
    ELSE IF image = "missing" THEN Out(DB, session, 400)
    ELSE IF image = "empty_filename" THEN Out(DB, session, 400)
    ELSE IF upload_to_s3(outcome).raised THEN Out(DB, session, 500)
    ELSE IF upload_to_s3(outcome).s3_url = NULL THEN Out(DB, session, 500)
    ELSE LET dirty == Submit(DB, session[c], severity)
         IN  IF CommitSubmitFails(severity)
             THEN Out(Rollback(DB, dirty), session, 500)
             ELSE Out(dirty, session, 201)

report_pothole(c) ==
    \E image \in ImageInputs, outcome \in UploadOutcomes,
       severity \in SeverityInputs :
        Apply(report_pothole_out(c, image, outcome, severity))

(* ----------------------------- staff routes ---------------------------- *)
\* lines 314-318 and 340: action_mapping.get(data['action'], 'APPROVED')
action_mapping(action) ==
    IF action = "approve" THEN "APPROVED"
    ELSE IF action = "reject" THEN "REJECTED"
    ELSE IF action = "need_info" THEN "NEED_INFO"
    ELSE "APPROVED"

\* a chain without its need_info branch
VerifyStatusApproveOnly(action, old) ==
    IF action = "approve" THEN "VERIFIED"
    ELSE IF action = "reject" THEN "REJECTED"
    ELSE old

\* lines 320-328: the status the if/elif chain leaves on the report
VerifyStatus(action, old) ==
    IF action = "approve" THEN "VERIFIED"
    ELSE IF action = "reject" THEN "REJECTED"
    ELSE IF action = "need_info" THEN "PENDING"
    ELSE old

\* lines 320-324: the credits the chain leaves on the report's owner
VerifyCredits(action, credits) ==
    IF action = "approve" THEN credits + ApproveCredits ELSE credits

\* lines 320-345: the session after the status change, the credit grant and
\* add(verification)
Verify(db, rid, action) ==
    LET owner == db.reports[rid].user_id
        granted == IF owner \in 1..Len(db.users)
                   THEN [db EXCEPT !.users[owner].credits = VerifyCredits(action, @)]
                   ELSE db
    IN  [granted EXCEPT
            !.reports[rid].status = VerifyStatus(action, @),
            !.verifications =
                Append(@, MunicipalVerification(rid, action_mapping(action)))]

verify_report_out(c, data, commit_ok) ==
    IF staff_required(c) # 0 THEN Out(DB, session, staff_required(c))
    ELSE IF data.empty THEN Out(DB, session, 400)
    ELSE IF ~ReportExists(data.report_id) THEN Out(DB, session, 404)
    \* KeyError out of data['action'], caught by the route
    ELSE IF data.action = NULL THEN Out(Rollback(DB, DB), session, 500)
    ELSE LET dirty == Verify(DB, data.report_id, data.action)
         IN  IF ~commit_ok
             THEN Out(Rollback(DB, dirty), session, 500)
             ELSE Out(dirty, session, 200)

verify_report(c) ==
    \E data \in VerifyData, commit_ok \in BOOLEAN :
        Apply(verify_report_out(c, data, commit_ok))

\* a bonus that is also paid when work starts
ProgressCreditsInProgressToo(status, credits) ==
    IF status \in {"COMPLETED", "IN_PROGRESS"}
    THEN credits + CompleteCredits ELSE credits

\* lines 366-368: the completion bonus
ProgressCredits(status, credits) ==
    IF status = "COMPLETED" THEN credits + CompleteCredits ELSE credits

\* lines 363-368
Progress(db, rid, status) ==
    LET owner == db.reports[rid].user_id
    IN  [db EXCEPT !.reports[rid].status = status,
                   !.users[owner].credits = ProgressCredits(status, @)]

update_progress_out(c, rid, status) ==
    IF staff_required(c) # 0 THEN Out(DB, session, staff_required(c))
    ELSE IF ~ReportExists(rid) THEN Out(DB, session, 404)
    ELSE Out(Progress(DB, rid, status), session, 200)

\* the status is drawn from the column's enum; a body with another value is
\* not explored
update_progress(c) ==
    \E rid \in ReportIdInputs, status \in status_enum :
        Apply(update_progress_out(c, rid, status))

(* ------------------------------ query APIs ---------------------------- *)
\* a filter that lets PENDING reports through
PublicStatusesWithPending == {"PENDING", "VERIFIED", "IN_PROGRESS", "COMPLETED"}

\* line 376: PotholeReport.status.in_([...])
PublicStatuses == {"VERIFIED", "IN_PROGRESS", "COMPLETED"}

\* the report ids the listings return
PublicReportIds ==
    {r \in 1..Len(reports) : reports[r].status \in PublicStatuses}

PendingReportIds == {r \in 1..Len(reports) : reports[r].status = "PENDING"}

MyReportIds(uid) == {r \in 1..Len(reports) : reports[r].user_id = uid}

public_reports_out(c) == Out(DB, session, 200)

public_reports(c) == Apply(public_reports_out(c))

my_reports_out(c) ==
    Out(DB, session, IF login_required(c) # 0 THEN login_required(c) ELSE 200)

my_reports(c) == Apply(my_reports_out(c))

user_profile_out(c) ==
    Out(DB, session, IF login_required(c) # 0 THEN login_required(c) ELSE 200)

user_profile(c) == Apply(user_profile_out(c))

pending_reports_out(c) ==
    Out(DB, session, IF staff_required(c) # 0 THEN staff_required(c) ELSE 200)

pending_reports(c) == Apply(pending_reports_out(c))

all_reports_out(c) ==
    Out(DB, session, IF staff_required(c) # 0 THEN staff_required(c) ELSE 200)

all_reports(c) == Apply(all_reports_out(c))

(* ---------------------------- specification --------------------------- *)
\* the deployment's first account: a municipal officer, as one
\* municipal_register call on the empty database creates it
SeededUsers == << CustomUser("bob", "b@x", "pw", TRUE) >>

IdleTxn == [w \in Workers |-> [pc |-> "idle"]]

Init ==
    /\ users = SeededUsers
    /\ reports = <<>>
    /\ verifications = <<>>
    /\ session = [c \in Clients |-> 0]
    /\ txn = IdleTxn
    /\ isolation = "REPEATABLE_READ"

Next ==
    \E c \in Clients :
        \/ register(c)
        \/ municipal_register(c)
        \/ create_staff_user(c)
        \/ login(c)
        \/ municipal_login(c)
        \/ logout(c)
        \/ report_pothole(c)
        \/ verify_report(c)
        \/ update_progress(c)
        \/ public_reports(c)
        \/ my_reports(c)
        \/ user_profile(c)
        \/ pending_reports(c)
        \/ all_reports(c)

Spec == Init /\ [][Next]_vars

\* the same routes from the empty database db.create_all() leaves
InitEmpty ==
    /\ users = <<>>
    /\ reports = <<>>
    /\ verifications = <<>>
    /\ session = [c \in Clients |-> 0]
    /\ txn = IdleTxn
    /\ isolation = "REPEATABLE_READ"

SpecEmpty == InitEmpty /\ [][Next]_vars

(* ------------------- two verify_report calls at once ------------------- *)
(* Two requests approve report 1, each in its own database transaction.   *)
(* A request reads the report (line 309), changes the status and reads    *)
(* and raises the owner's credits in its session (lines 320-324), and     *)
(* writes both back at commit() (lines 345-346).  The server's isolation  *)
(* level, which the program does not set, decides whether the credits are *)
(* read from the transaction's first read view or as last committed.      *)
\* the one report of the scenario
ConcReport == Len(reports)

ConcOwner == reports[ConcReport].user_id

Other(w) == CHOOSE v \in Workers : v # w

InFlight(w) == txn[w].pc \in {"loaded", "dirty"}

\* line 309: the transaction starts and loads the report
Begin(w) ==
    /\ txn[w].pc = "idle"
    /\ txn' = [txn EXCEPT ![w] =
                  [pc |-> "loaded",
                   snap |-> users[ConcOwner].credits,
                   overlap |-> InFlight(Other(w))]]
    /\ UNCHANGED <<users, reports, verifications, session, isolation>>

\* lines 320-324 with action 'approve'
Mutate(w) ==
    /\ txn[w].pc = "loaded"
    /\ LET read == IF isolation = "REPEATABLE_READ"
                   THEN txn[w].snap
                   ELSE users[ConcOwner].credits
       IN  txn' = [txn EXCEPT ![w] =
                      [pc |-> "dirty",
                       snap |-> txn[w].snap,
                       overlap |-> txn[w].overlap,
                       status |-> VerifyStatus("approve", reports[ConcReport].status),
                       credits |-> VerifyCredits("approve", read)]]
    /\ UNCHANGED <<users, reports, verifications, session, isolation>>

\* lines 337-346: add(verification) and commit()
Commit(w) ==
    /\ txn[w].pc = "dirty"
    /\ users' = [users EXCEPT ![ConcOwner].credits = txn[w].credits]
    /\ reports' = [reports EXCEPT ![ConcReport].status = txn[w].status]
    /\ verifications' =
           Append(verifications,
                  MunicipalVerification(ConcReport, action_mapping("approve")))
    /\ txn' = [txn EXCEPT ![w] =
                  [pc |-> "done", snap |-> txn[w].snap,
                   overlap |-> txn[w].overlap]]
    /\ UNCHANGED <<session, isolation>>

\* one report of a citizen, in any state update_progress can leave it in
InitConc ==
    /\ \E credits \in {SubmitCredits, SubmitCredits + CompleteCredits} :
           users = << CustomUser("bob", "b@x", "pw", TRUE),
                      [CustomUser("alice", "a@x", "pw", FALSE)
                          EXCEPT !.credits = credits] >>
    /\ \E status \in status_enum :
           reports = << [PotholeReport(2, "HIGH") EXCEPT !.status = status] >>
    /\ verifications = <<>>
    /\ session = [c \in Clients |-> 1]
    /\ txn = IdleTxn
    /\ isolation \in IsolationLevels

NextConc == \E w \in Workers : Begin(w) \/ Mutate(w) \/ Commit(w)

SpecConc == InitConc /\ [][NextConc]_vars

(* ----------------------------- properties ------------------------------ *)
IsStaffSession(c) == session[c] \in 1..Len(users) /\ users[session[c]].is_staff

CreditsKept(db) ==
    /\ Len(db.users) = Len(users)
    /\ \A u \in 1..Len(users) : db.users[u].credits = users[u].credits

CreditsKeptBut(db, owner) ==
    /\ Len(db.users) = Len(users)
    /\ \A u \in 1..Len(users) : u # owner => db.users[u] = users[u]

StatusesKept(db) ==
    /\ Len(db.reports) >= Len(reports)
    /\ \A r \in 1..Len(reports) : db.reports[r].status = reports[r].status

ReportsKeptBut(db, rid) ==
    /\ Len(db.reports) = Len(reports)
    /\ \A r \in 1..Len(reports) : r # rid => db.reports[r] = reports[r]

\* C1: a verify_report call by a staff session on an existing report that
\* succeeds sets VERIFIED and adds exactly 10 to the owner's credits on
\* 'approve', sets REJECTED on 'reject' and PENDING on 'need_info' with every
\* user's credits unchanged, whatever the report's status was.
C1_VerifyEffects ==
    \A c \in Clients, rid \in 1..Len(reports), action \in KnownActions :
        LET out == verify_report_out(c, Body(rid, action), TRUE)
            owner == reports[rid].user_id
        IN  IsStaffSession(c) =>
            /\ out.code = 200
            /\ action = "approve" =>
                   /\ out.db.reports[rid].status = "VERIFIED"
                   /\ out.db.users[owner].credits = users[owner].credits + 10
                   /\ CreditsKeptBut(out.db, owner)
            /\ action = "reject" =>
                   /\ out.db.reports[rid].status = "REJECTED"
                   /\ CreditsKept(out.db)
            /\ action = "need_info" =>
                   /\ out.db.reports[rid].status = "PENDING"
                   /\ CreditsKept(out.db)
            /\ ReportsKeptBut(out.db, rid)

\* an approved report: its owner holds the 5 of the submission and the 10 of
\* the approval
C1_Witness ==
    \E r \in 1..Len(reports) :
        /\ reports[r].status = "VERIFIED"
        /\ users[reports[r].user_id].credits = 15
        /\ verifications = << MunicipalVerification(r, "APPROVED") >>

\* C2: a submission that succeeds (201) creates exactly one report, owned by
\* the session's user, PENDING with credits_awarded 5, and adds exactly 5 to
\* that user's credits; no other report and no other user changes.  A logged-in
\* request with an image, a successful upload and a severity succeeds.
C2_SubmitEffects ==
    \A c \in Clients, image \in ImageInputs, outcome \in UploadOutcomes,
       severity \in SeverityInputs :
        LET out == report_pothole_out(c, image, outcome, severity)
            uid == session[c]
            n == Len(reports)
        IN  /\ (uid # 0 /\ image = "ok" /\ outcome = "ok" /\ severity # NULL)
                   => out.code = 201
            /\ out.code = 201 =>
                   /\ Len(out.db.reports) = n + 1
                   /\ out.db.reports[n + 1].user_id = uid
                   /\ out.db.reports[n + 1].status = "PENDING"
                   /\ out.db.reports[n + 1].credits_awarded = 5
                   /\ \A r \in 1..n : out.db.reports[r] = reports[r]
                   /\ out.db.users[uid].credits = users[uid].credits + 5
                   /\ CreditsKeptBut(out.db, uid)
                   /\ out.db.verifications = verifications

\* a freshly submitted report
C2_Witness ==
    \E r \in 1..Len(reports) :
        /\ reports[r].status = "PENDING"
        /\ reports[r].credits_awarded = 5
        /\ users[reports[r].user_id].credits = 5
        /\ verifications = <<>>

\* C4: update_progress by a staff session on an existing report sets the
\* given status whatever the status was; COMPLETED adds exactly 5 to the
\* owner's credits, every other status leaves all credits unchanged; nothing
\* else changes.
C4_ProgressEffects ==
    \A c \in Clients, rid \in 1..Len(reports), status \in status_enum :
        LET out == update_progress_out(c, rid, status)
            owner == reports[rid].user_id
        IN  IsStaffSession(c) =>
            /\ out.code = 200
            /\ out.db.reports[rid] = [reports[rid] EXCEPT !.status = status]
            /\ ReportsKeptBut(out.db, rid)
            /\ out.db.verifications = verifications
            /\ CreditsKeptBut(out.db, owner)
            /\ status = "COMPLETED" =>
                   out.db.users[owner].credits = users[owner].credits + 5
            /\ status # "COMPLETED" => CreditsKept(out.db)

\* a report completed without ever having been verified
C4_Witness ==
    \E r \in 1..Len(reports) :
        /\ reports[r].status = "COMPLETED"
        /\ users[reports[r].user_id].credits = 10
        /\ verifications = <<>>

\* C5: verify_report and update_progress under a session without the staff
\* flag answer 403 (302 without a session) and change nothing; no other route
\* changes the status of an existing report.
C5_StaffOnly ==
    \A c \in Clients :
        /\ ~IsStaffSession(c) =>
               LET code == IF session[c] = 0 THEN 302 ELSE 403
               IN  /\ \A data \in VerifyData, commit_ok \in BOOLEAN :
                          verify_report_out(c, data, commit_ok)
                              = Out(DB, session, code)
                   /\ \A rid \in ReportIdInputs, status \in status_enum :
                          update_progress_out(c, rid, status)
                              = Out(DB, session, code)
        /\ \A username \in Usernames, email \in Emails, pw \in RegisterPasswords :
               /\ StatusesKept(register_out(c, username, email, pw).db)
               /\ StatusesKept(municipal_register_out(c, username, email, pw).db)
               /\ StatusesKept(create_staff_user_out(c, username, email, pw).db)
        /\ \A username \in Usernames, pw \in LoginPasswords :
               /\ StatusesKept(login_out(c, username, pw).db)
               /\ StatusesKept(municipal_login_out(c, username, pw).db)
        /\ StatusesKept(logout_out(c).db)
        /\ \A image \in ImageInputs, outcome \in UploadOutcomes,
              severity \in SeverityInputs :
               StatusesKept(report_pothole_out(c, image, outcome, severity).db)
        /\ StatusesKept(public_reports_out(c).db)
        /\ StatusesKept(my_reports_out(c).db)
        /\ StatusesKept(user_profile_out(c).db)
        /\ StatusesKept(pending_reports_out(c).db)
        /\ StatusesKept(all_reports_out(c).db)

\* a citizen's session facing a report it is refused on
C5_Witness ==
    \E c \in Clients :
        /\ session[c] # 0
        /\ ~users[session[c]].is_staff
        /\ Len(reports) >= 1
        /\ verify_report_out(c, Body(1, "approve"), TRUE).code = 403
        /\ update_progress_out(c, 1, "COMPLETED").code = 403

\* C6: a verify_report call that fails after it changed the report (and, for
\* 'approve', the credits) answers 500 and leaves the report's status, the
\* owner's credits and the verification records as before the call.
C6_RollbackOnFailure ==
    \A c \in Clients, rid \in 1..Len(reports), action \in KnownActions :
        LET out == verify_report_out(c, Body(rid, action), FALSE)
        IN  IsStaffSession(c) =>
            /\ out.code = 500
            /\ out.db.reports = reports
            /\ out.db.users = users
            /\ out.db.verifications = verifications

\* a staff session on a report whose approval would change status, credits
\* and records, and whose failed commit answers 500
C6_Witness ==
    \E c \in Clients :
        /\ IsStaffSession(c)
        /\ Len(reports) >= 1
        /\ reports[1].status = "PENDING"
        /\ Verify(DB, 1, "approve").reports # reports
        /\ Verify(DB, 1, "approve").users # users
        /\ Verify(DB, 1, "approve").verifications # verifications
        /\ verify_report_out(c, Body(1, "approve"), FALSE).code = 500

\* C7: a submission without an image part or with an empty filename answers
\* 400, one whose upload fails answers 500, and neither creates a report nor
\* changes any credits.
C7_FailedSubmission ==
    \A c \in Clients, image \in ImageInputs, outcome \in UploadOutcomes,
       severity \in SeverityInputs :
        LET out == report_pothole_out(c, image, outcome, severity)
        IN  session[c] # 0 =>
            /\ image \in {"missing", "empty_filename"} =>
                   out = Out(DB, session, 400)
            /\ (image = "ok" /\ outcome # "ok") =>
                   out = Out(DB, session, 500)

\* a logged-in user whose submissions have all failed so far
C7_Witness ==
    \E c \in Clients :
        /\ session[c] # 0
        /\ reports = <<>>
        /\ users[session[c]].credits = 0
        /\ report_pothole_out(c, "missing", "ok", "HIGH").code = 400
        /\ report_pothole_out(c, "ok", "NoCredentialsError", "HIGH").code = 500

\* C8: public_reports returns exactly the reports whose status is VERIFIED,
\* IN_PROGRESS or COMPLETED, and never one that is PENDING or REJECTED.
C8_PublicReports ==
    /\ \A r \in 1..Len(reports) :
           r \in PublicReportIds <=>
               reports[r].status \in {"VERIFIED", "IN_PROGRESS", "COMPLETED"}
    /\ \A r \in PublicReportIds : ~(reports[r].status \in {"PENDING", "REJECTED"})

\* a report that was approved and has been moved back to PENDING
C8_Witness ==
    \E r \in 1..Len(reports) :
        /\ reports[r].status = "PENDING"
        /\ verifications = << MunicipalVerification(r, "APPROVED") >>
        /\ ~(r \in PublicReportIds)

\* the unique columns of custom_user
UniqueUsers ==
    \A i, j \in 1..Len(users) :
        i # j => /\ users[i].username # users[j].username
                 /\ users[i].email # users[j].email

\* C9: no two users share a username or an email, and a registration through
\* register, municipal_register or create_staff_user whose username or email
\* is taken answers 400 and adds no user.
C9_DuplicateRejected ==
    /\ UniqueUsers
    /\ \A c \in Clients, username \in Usernames, email \in Emails,
          pw \in RegisterPasswords :
           (UserByUsername(username) # 0 \/ UserByEmail(email) # 0) =>
               /\ register_out(c, username, email, pw) = Out(DB, session, 400)
               /\ municipal_register_out(c, username, email, pw)
                      = Out(DB, session, 400)
               /\ create_staff_user_out(c, username, email, pw)
                      = Out(DB, session, 400)

\* C10: a verify_report call that succeeds appends exactly one record for the
\* report, and the record is APPROVED exactly when the call left the report
\* VERIFIED, REJECTED exactly when REJECTED, NEED_INFO exactly when PENDING.
C10_DecisionMatchesStatus ==
    \A c \in Clients, rid \in 1..Len(reports), action \in ActionInputs :
        LET out == verify_report_out(c, Body(rid, action), TRUE)
            n == Len(verifications)
        IN  out.code = 200 =>
            /\ Len(out.db.verifications) = n + 1
            /\ SubSeq(out.db.verifications, 1, n) = verifications
            /\ out.db.verifications[n + 1].report_id = rid
            /\ LET decision == out.db.verifications[n + 1].verification_status
                   status == out.db.reports[rid].status
               IN  /\ decision = "APPROVED" <=> status = "VERIFIED"
                   /\ decision = "REJECTED" <=> status = "REJECTED"
                   /\ decision = "NEED_INFO" <=> status = "PENDING"

\* C3: once two overlapping 'approve' calls on the same report have both
\* committed, the owner's credits are exactly 10 above their value before the
\* calls and the report is VERIFIED.
C3_NoDoubleGrant ==
    ( /\ \A w \in Workers : txn[w].pc = "done"
      /\ \E w \in Workers : txn[w].overlap )
    => /\ \A w \in Workers : users[ConcOwner].credits = txn[w].snap + 10
       /\ reports[ConcReport].status = "VERIFIED"

====
